---- MODULE Spec2Model ----
(***************************************************************************)
(* Model of skills/wechat-article/index.py: MarkdownParser.parse, a        *)
(* line-oriented block state machine, with its renderers and the inline    *)
(* formatter.                                                              *)
(*                                                                         *)
(* A text is a sequence of one-character strings.  An HTML entity and an   *)
(* HTML tag written by a renderer are single tokens of such a sequence     *)
(* ("&lt;", "<em>"): none of them contains a character that a later        *)
(* pattern of the parser looks for.  A rendered block is a record          *)
(* [tag, level, size, body], body being the sequence of the texts the      *)
(* element holds.                                                          *)
(***************************************************************************)
EXTENDS Integers, Sequences, FiniteSets, TLC

VARIABLES pc, lines, i, html_lines, in_code_block, code_content,
          in_list, list_items, in_blockquote, blockquote_content,
          article, title,
          payload, theme, result, stdout, output_file,
          clipper, asr

\* the request, the theme argument, the result of format_article, the
\* objects printed by main of wechat-article and the file it wrote
main_vars == <<payload, theme, result, stdout, output_file>>

\* the locals of VideoClipper.process and of AudioExtractorASR.process
skill_vars == <<clipper, asr>>

vars == <<pc, lines, i, html_lines, in_code_block, code_content,
          in_list, list_items, in_blockquote, blockquote_content,
          article, title, main_vars, skill_vars>>

\* Python's None
None == "None"

\* a name of the program that has no value yet
Unbound == [unbound |-> TRUE]

\* the backtick character (a string of the module cannot hold it)
BT == "BACKTICK"

\* longest input, in lines
MaxLines == 3

\* the raw lines an input is made of
LineSet ==
  { <<>>,
    <<BT, BT, BT>>,
    <<">", " ", "a">>,
    <<">", "b", " ">>,
    <<"#", " ", "h">>,
    <<"#", "#", "x", "<">>,
    <<"#", "#", "#", "#", "#", "#", "#">>,
    <<"-", "-", "-">>,
    <<"-", " ", "i">>,
    <<"*", " ", "*", "j", "*">>,
    <<BT, "p", BT, "&", "\"", "'">> }


(***************************************************************************)
(* str methods                                                             *)
(***************************************************************************)
Whitespace == {" ", "\t"}

SetMin(S) == CHOOSE x \in S : \A y \in S : x <= y

SetMax(S) == CHOOSE x \in S : \A y \in S : x >= y

\* s[n:]
Drop(s, n) == IF n >= Len(s) THEN <<>> ELSE SubSeq(s, n + 1, Len(s))

\* s.startswith(pre)
StartsWith(s, pre) == Len(s) >= Len(pre) /\ SubSeq(s, 1, Len(pre)) = pre

\* s.rstrip()
RStrip(s) ==
  LET keep == {k \in 1..Len(s) : s[k] \notin Whitespace}
  IN  IF keep = {} THEN <<>> ELSE SubSeq(s, 1, SetMax(keep))

\* s.lstrip()
LStrip(s) ==
  LET keep == {k \in 1..Len(s) : s[k] \notin Whitespace}
  IN  IF keep = {} THEN <<>> ELSE SubSeq(s, SetMin(keep), Len(s))

\* s.strip()
Strip(s) == LStrip(RStrip(s))

\* len(line) - len(line.lstrip('#'))
HashLevel(s) ==
  LET other == {k \in 1..Len(s) : s[k] # "#"}
  IN  IF other = {} THEN Len(s) ELSE SetMin(other) - 1

RECURSIVE Join(_)
\* '\n'.join(parts)
Join(parts) ==
  IF parts = <<>> THEN <<>>
  ELSE IF Len(parts) = 1 THEN parts[1]
  ELSE parts[1] \o <<"\n">> \o Join(Tail(parts))

RECURSIVE Split(_)
\* text.split('\n')
Split(text) ==
  LET nl == {k \in 1..Len(text) : text[k] = "\n"}
  IN  IF nl = {} THEN <<text>>
      ELSE <<SubSeq(text, 1, SetMin(nl) - 1)>> \o Split(Drop(text, SetMin(nl)))

(***************************************************************************)
(* MarkdownParser.escape                                                   *)
(***************************************************************************)
html_tags ==
  [c \in {"&", "<", ">", "\"", "'"} |->
     CASE c = "&"  -> "&amp;"
       [] c = "<"  -> "&lt;"
       [] c = ">"  -> "&gt;"
       [] c = "\"" -> "&quot;"
       [] c = "'"  -> "&#39;"]

escape(text) ==
  [k \in 1..Len(text) |->
     IF text[k] \in DOMAIN html_tags THEN html_tags[text[k]] ELSE text[k]]

(***************************************************************************)
(* re.sub for the six patterns of _format_inline.  Each pattern is         *)
(*   open  [^x1]{min1,}  close                       (one group), or       *)
(*   open  [^x1]{min1,}  mid  [^x2]{min2,}  close    (two groups).         *)
(* The literal after a group starts with the character the group           *)
(* excludes, so a group can only end at the first excluded character and   *)
(* backtracking finds nothing more.  The replacement is r0 \1 r1 for one   *)
(* group and r0 \2 r1 \1 r2 for two.                                       *)
(***************************************************************************)
CodePat ==
  [groups |-> 1, open |-> <<BT>>, x1 |-> {BT}, min1 |-> 1, close |-> <<BT>>,
   mid |-> <<>>, x2 |-> {}, min2 |-> 0,
   r0 |-> <<"<code>">>, r1 |-> <<"</code>">>, r2 |-> <<>>]

BoldPat ==
  [groups |-> 1, open |-> <<"*", "*">>, x1 |-> {"*"}, min1 |-> 1,
   close |-> <<"*", "*">>, mid |-> <<>>, x2 |-> {}, min2 |-> 0,
   r0 |-> <<"<strong>">>, r1 |-> <<"</strong>">>, r2 |-> <<>>]

ItalicPat ==
  [groups |-> 1, open |-> <<"*">>, x1 |-> {"*"}, min1 |-> 1, close |-> <<"*">>,
   mid |-> <<>>, x2 |-> {}, min2 |-> 0,
   r0 |-> <<"<em>">>, r1 |-> <<"</em>">>, r2 |-> <<>>]

DelPat ==
  [groups |-> 1, open |-> <<"~", "~">>, x1 |-> {"~"}, min1 |-> 1,
   close |-> <<"~", "~">>, mid |-> <<>>, x2 |-> {}, min2 |-> 0,
   r0 |-> <<"<del>">>, r1 |-> <<"</del>">>, r2 |-> <<>>]

LinkPat ==
  [groups |-> 2, open |-> <<"[">>, x1 |-> {"]"}, min1 |-> 1,
   mid |-> <<"]", "(">>, x2 |-> {")"}, min2 |-> 1, close |-> <<")">>,
   r0 |-> <<"<a href=\"">>, r1 |-> <<"\">">>, r2 |-> <<"</a>">>]

ImagePat ==
  [groups |-> 2, open |-> <<"!", "[">>, x1 |-> {"]"}, min1 |-> 0,
   mid |-> <<"]", "(">>, x2 |-> {")"}, min2 |-> 1, close |-> <<")">>,
   r0 |-> <<"<img src=\"">>, r1 |-> <<"\" alt=\"">>, r2 |-> <<"\"/>">>]

\* the literal lit stands in s at position p
LitAt(s, p, lit) ==
  p + Len(lit) - 1 <= Len(s) /\ SubSeq(s, p, p + Len(lit) - 1) = lit

\* the first position from p on that holds a character of x, or Len(s) + 1
GroupEnd(s, p, x) ==
  LET stop == {k \in p..Len(s) : s[k] \in x}
  IN  IF stop = {} THEN Len(s) + 1 ELSE SetMin(stop)

NoMatch == [ok |-> FALSE, last |-> 0, g1 |-> <<>>, g2 |-> <<>>]

\* the match of pat that starts at position p of s
MatchAt(pat, s, p) ==
  IF ~LitAt(s, p, pat.open) THEN NoMatch
  ELSE
    LET b1 == p + Len(pat.open)
        e1 == GroupEnd(s, b1, pat.x1)
    IN  IF e1 - b1 < pat.min1 THEN NoMatch
        ELSE IF pat.groups = 1
        THEN IF LitAt(s, e1, pat.close)
             THEN [ok |-> TRUE, last |-> e1 + Len(pat.close) - 1,
                   g1 |-> SubSeq(s, b1, e1 - 1), g2 |-> <<>>]
             ELSE NoMatch
        ELSE IF ~LitAt(s, e1, pat.mid) THEN NoMatch
        ELSE
          LET b2 == e1 + Len(pat.mid)
              e2 == GroupEnd(s, b2, pat.x2)
          IN  IF e2 - b2 >= pat.min2 /\ LitAt(s, e2, pat.close)
              THEN [ok |-> TRUE, last |-> e2 + Len(pat.close) - 1,
                    g1 |-> SubSeq(s, b1, e1 - 1), g2 |-> SubSeq(s, b2, e2 - 1)]
              ELSE NoMatch

Replacement(pat, m) ==
  IF pat.groups = 1 THEN pat.r0 \o m.g1 \o pat.r1
  ELSE pat.r0 \o m.g2 \o pat.r1 \o m.g1 \o pat.r2

RECURSIVE SubFrom(_, _, _)
\* re.sub from position p on: leftmost matches, not overlapping
SubFrom(pat, s, p) ==
  IF p > Len(s) THEN <<>>
  ELSE LET m == MatchAt(pat, s, p)
       IN  IF m.ok THEN Replacement(pat, m) \o SubFrom(pat, s, m.last + 1)
           ELSE <<s[p]>> \o SubFrom(pat, s, p + 1)

ReSub(pat, s) == SubFrom(pat, s, 1)

\* _format_inline with the image pass ahead of the link pass
_format_inline_ImageFirst(text) ==
  ReSub(LinkPat,
    ReSub(ImagePat,
      ReSub(DelPat,
        ReSub(ItalicPat,
          ReSub(BoldPat,
            ReSub(CodePat, text))))))

\* MarkdownParser._format_inline
_format_inline(text) ==
  ReSub(ImagePat,
    ReSub(LinkPat,
      ReSub(DelPat,
        ReSub(ItalicPat,
          ReSub(BoldPat,
            ReSub(CodePat, text))))))

(***************************************************************************)
(* Renderers.  A block is [tag, level, size, body].                        *)
(***************************************************************************)
\* the size table with the sizes of levels 5 and 6 exchanged
HeaderSize_Swapped ==
  [l \in 1..6 |->
     CASE l = 1 -> 28 [] l = 2 -> 24 [] l = 3 -> 20
       [] l = 4 -> 18 [] l = 5 -> 14 [] l = 6 -> 16]

HeaderSize ==
  [l \in 1..6 |->
     CASE l = 1 -> 28 [] l = 2 -> 24 [] l = 3 -> 20
       [] l = 4 -> 18 [] l = 5 -> 16 [] l = 6 -> 14]

\* the KeyError of the size lookup
KeyError == [tag |-> "KeyError", level |-> 0, size |-> 0, body |-> <<>>]

_render_header(level, text) ==
  IF level \in DOMAIN HeaderSize
  THEN [tag |-> "h", level |-> level, size |-> HeaderSize[level],
        body |-> <<escape(text)>>]
  ELSE KeyError

_render_paragraph(text) ==
  [tag |-> "p", level |-> 0, size |-> 0, body |-> <<_format_inline(text)>>]

\* _render_code_block that formats the escaped code like a paragraph
_render_code_block_Inline(code) ==
  [tag |-> "pre", level |-> 0, size |-> 0,
   body |-> <<_format_inline(escape(code))>>]

_render_code_block(code) ==
  [tag |-> "pre", level |-> 0, size |-> 0, body |-> <<escape(code)>>]

\* _render_list that copies the items as they are
_render_list_Plain(items) ==
  [tag |-> "ul", level |-> 0, size |-> 0, body |-> items]

_render_list(items) ==
  [tag |-> "ul", level |-> 0, size |-> 0,
   body |-> [k \in 1..Len(items) |-> _format_inline(items[k])]]

_render_blockquote(text) ==
  LET ls == Split(text)
  IN  [tag |-> "blockquote", level |-> 0, size |-> 0,
       body |-> [k \in 1..Len(ls) |-> _format_inline(ls[k])]]

Hr == [tag |-> "hr", level |-> 0, size |-> 0, body |-> <<>>]

(***************************************************************************)
(* WeChatArticleFormatter.extract_title                                    *)
(***************************************************************************)
\* an English fallback literal
Unnamed_Untitled == <<"U", "n", "t", "i", "t", "l", "e", "d">>

\* the literal returned when no line is a title: five CJK characters,
\* each written as its code point (a string of the module is ASCII)
Unnamed == <<"U+672A", "U+547D", "U+540D", "U+6587", "U+7AE0">>

RECURSIVE TitleFrom(_)
\* the for loop over the lines that are left
TitleFrom(ls) ==
  IF ls = <<>> THEN Unnamed
  ELSE IF StartsWith(Strip(Head(ls)), <<"#", " ">>)
       THEN Strip(Drop(Strip(Head(ls)), 2))
       ELSE TitleFrom(Tail(ls))

\* extract_title that keeps scanning and returns the last match
extract_title_Last(content) ==
  LET ls == Split(content)
  IN  TitleFrom([k \in 1..Len(ls) |-> ls[Len(ls) + 1 - k]])

extract_title(content) == TitleFrom(Split(content))

(***************************************************************************)
(* MarkdownParser.parse.  The locals of one call are the record st; the    *)
(* rules below are the branches of the loop body, in the order of the      *)
(* code.                                                                   *)
(***************************************************************************)
Fence == <<BT, BT, BT>>

Locals ==
  [html_lines |-> html_lines, in_code_block |-> in_code_block,
   code_content |-> code_content, in_list |-> in_list,
   list_items |-> list_items, in_blockquote |-> in_blockquote,
   blockquote_content |-> blockquote_content, raised |-> FALSE]

\* FenceRule that opens the fence on the code buffer as it is
FenceRule_KeepBuffer(st) ==
  IF ~st.in_code_block
  THEN [st EXCEPT !.in_code_block = TRUE]
  ELSE [st EXCEPT !.in_code_block = FALSE,
                  !.html_lines =
                     Append(@, _render_code_block(Join(st.code_content)))]

\* a line that starts with the fence marker
FenceRule(st) ==
  IF ~st.in_code_block
  THEN [st EXCEPT !.in_code_block = TRUE, !.code_content = <<>>]
  ELSE [st EXCEPT !.in_code_block = FALSE,
                  !.html_lines =
                     Append(@, _render_code_block(Join(st.code_content)))]

\* CodeRule that appends the line twice
CodeRule_Twice(st, line) ==
  [st EXCEPT !.code_content = Append(Append(@, line), line)]

\* any other line while a fence is open
CodeRule(st, line) == [st EXCEPT !.code_content = Append(@, line)]

\* a line that starts with '>'
QuoteRule(st, line) ==
  LET opened ==
        IF ~st.in_blockquote
        THEN [st EXCEPT
                !.html_lines =
                   IF st.blockquote_content # <<>>
                   THEN Append(@, _render_blockquote(Join(st.blockquote_content)))
                   ELSE @,
                !.blockquote_content = <<>>,
                !.in_blockquote = TRUE]
        ELSE st
  IN  [opened EXCEPT !.blockquote_content = Append(@, Strip(Drop(line, 1)))]

\* CloseQuote without the test that the line is not blank
CloseQuote_BlankCloses(st, line) ==
  IF st.in_blockquote /\ ~StartsWith(line, <<">">>)
  THEN [st EXCEPT
          !.html_lines =
             Append(@, _render_blockquote(Join(st.blockquote_content))),
          !.blockquote_content = <<>>,
          !.in_blockquote = FALSE]
  ELSE st

\* CloseQuote that emits the blockquote and keeps its buffer
CloseQuote_KeepBuffer(st, line) ==
  IF st.in_blockquote /\ line # <<>> /\ ~StartsWith(line, <<">">>)
  THEN [st EXCEPT
          !.html_lines =
             Append(@, _render_blockquote(Join(st.blockquote_content))),
          !.in_blockquote = FALSE]
  ELSE st

\* if in_blockquote and line and not line.startswith('>')
CloseQuote(st, line) ==
  IF st.in_blockquote /\ line # <<>> /\ ~StartsWith(line, <<">">>)
  THEN [st EXCEPT
          !.html_lines =
             Append(@, _render_blockquote(Join(st.blockquote_content))),
          !.blockquote_content = <<>>,
          !.in_blockquote = FALSE]
  ELSE st

\* IsHeader with the upper bound of the level test off by one
IsHeader_UpTo7(line) ==
  StartsWith(line, <<"#">>) /\ 1 <= HashLevel(line) /\ HashLevel(line) <= 7

\* the line starts with '#' and 1 <= level <= 6
IsHeader(line) ==
  StartsWith(line, <<"#">>) /\ 1 <= HashLevel(line) /\ HashLevel(line) <= 6

\* text = line[level+1:].strip()
HeaderText(line) == Strip(Drop(line, HashLevel(line) + 1))

HeaderRule(st, line) ==
  LET h == _render_header(HashLevel(line), HeaderText(line))
  IN  IF h = KeyError THEN [st EXCEPT !.raised = TRUE]
      ELSE [st EXCEPT !.html_lines = Append(@, h)]

\* IsRule that takes only the line '---'
IsRule_Exact(line) == line = <<"-", "-", "-">>

IsRule(line) == StartsWith(line, <<"-", "-", "-">>)

RuleRule(st) == [st EXCEPT !.html_lines = Append(@, Hr)]

IsListItem(line) ==
  StartsWith(line, <<"-", " ">>) \/ StartsWith(line, <<"*", " ">>)

\* ListItemRule that leaves in_list as it is
ListItemRule_NoFlag(st, line) ==
  [st EXCEPT !.list_items = Append(@, Strip(Drop(line, 2)))]

ListItemRule(st, line) ==
  [st EXCEPT !.list_items = Append(@, Strip(Drop(line, 2))),
             !.in_list = TRUE]

\* flush of the open list
FlushList(st) ==
  [st EXCEPT !.html_lines = Append(@, _render_list(st.list_items)),
             !.list_items = <<>>,
             !.in_list = FALSE]

\* if in_list and not line.startswith(('- ', '* '))
CloseList(st, line) ==
  IF st.in_list /\ ~IsListItem(line) THEN FlushList(st) ELSE st

\* ParagraphRule that continues the paragraph the output ends with
ParagraphRule_Merge(st, line) ==
  IF Strip(line) = <<>> THEN st
  ELSE IF st.html_lines # <<>> /\ st.html_lines[Len(st.html_lines)].tag = "p"
  THEN [st EXCEPT !.html_lines[Len(st.html_lines)].body =
                     <<@[1] \o <<" ">> \o _format_inline(line)>>]
  ELSE [st EXCEPT !.html_lines = Append(@, _render_paragraph(line))]

\* if line.strip(): append the paragraph; a blank line appends nothing
ParagraphRule(st, line) ==
  IF Strip(line) # <<>>
  THEN [st EXCEPT !.html_lines = Append(@, _render_paragraph(line))]
  ELSE st

\* Classify with the 'continue' of the horizontal rule left out
Classify_NoContinue(st, line) ==
  IF IsHeader(line) THEN HeaderRule(st, line)
  ELSE IF IsRule(line)
  THEN ParagraphRule(CloseList(RuleRule(st), line), line)
  ELSE IF IsListItem(line) THEN ListItemRule(st, line)
  ELSE IF st.in_list /\ Strip(line) = <<>> THEN FlushList(st)
  ELSE ParagraphRule(CloseList(st, line), line)

\* the rules after the blockquote rule
Classify(st, line) ==
  IF IsHeader(line) THEN HeaderRule(st, line)
  ELSE IF IsRule(line) THEN RuleRule(st)
  ELSE IF IsListItem(line) THEN ListItemRule(st, line)
  ELSE IF st.in_list /\ Strip(line) = <<>> THEN FlushList(st)
  ELSE ParagraphRule(CloseList(st, line), line)

\* Step with the open-fence test after the blockquote rule
Step_QuoteFirst(st, line) ==
  IF StartsWith(line, Fence) THEN FenceRule(st)
  ELSE IF StartsWith(line, <<">">>) THEN QuoteRule(st, line)
  ELSE IF st.in_code_block THEN CodeRule(st, line)
  ELSE Classify(CloseQuote(st, line), line)

\* one pass of the loop body over the line (already rstripped)
Step(st, line) ==
  IF StartsWith(line, Fence) THEN FenceRule(st)
  ELSE IF st.in_code_block THEN CodeRule(st, line)
  ELSE IF StartsWith(line, <<">">>) THEN QuoteRule(st, line)
  ELSE Classify(CloseQuote(st, line), line)

\* Finish with the three flushes chained by elif
Finish_ElseIf(st) ==
  IF st.in_code_block /\ st.code_content # <<>>
  THEN [st EXCEPT !.html_lines =
          Append(@, _render_code_block(Join(st.code_content)))]
  ELSE IF st.in_blockquote /\ st.blockquote_content # <<>>
  THEN [st EXCEPT !.html_lines =
          Append(@, _render_blockquote(Join(st.blockquote_content)))]
  ELSE IF st.in_list /\ st.list_items # <<>>
  THEN [st EXCEPT !.html_lines = Append(@, _render_list(st.list_items))]
  ELSE st

\* Finish without the flush of the list
Finish_NoList(st) ==
  LET c == IF st.in_code_block /\ st.code_content # <<>>
           THEN [st EXCEPT !.html_lines =
                   Append(@, _render_code_block(Join(st.code_content)))]
           ELSE st
  IN  IF c.in_blockquote /\ c.blockquote_content # <<>>
      THEN [c EXCEPT !.html_lines =
              Append(@, _render_blockquote(Join(c.blockquote_content)))]
      ELSE c

\* the three flushes after the loop
Finish(st) ==
  LET c == IF st.in_code_block /\ st.code_content # <<>>
           THEN [st EXCEPT !.html_lines =
                   Append(@, _render_code_block(Join(st.code_content)))]
           ELSE st
      q == IF c.in_blockquote /\ c.blockquote_content # <<>>
           THEN [c EXCEPT !.html_lines =
                   Append(@, _render_blockquote(Join(c.blockquote_content)))]
           ELSE c
  IN  IF q.in_list /\ q.list_items # <<>>
      THEN [q EXCEPT !.html_lines = Append(@, _render_list(q.list_items))]
      ELSE q

\* the line the loop body is about to process: line = line.rstrip()
CurLine == RStrip(lines[i + 1])

Assign(st) ==
  /\ html_lines' = st.html_lines
  /\ in_code_block' = st.in_code_block
  /\ code_content' = st.code_content
  /\ in_list' = st.in_list
  /\ list_items' = st.list_items
  /\ in_blockquote' = st.in_blockquote
  /\ blockquote_content' = st.blockquote_content

Init ==
  /\ pc = "idle"
  /\ lines = <<>>
  /\ i = 0
  /\ html_lines = <<>>
  /\ in_code_block = FALSE
  /\ code_content = <<>>
  /\ in_list = FALSE
  /\ list_items = <<>>
  /\ in_blockquote = FALSE
  /\ blockquote_content = <<>>
  /\ article = <<>>
  /\ title = <<>>
  /\ payload = Unbound
  /\ theme = None
  /\ result = Unbound
  /\ stdout = <<>>
  /\ output_file = Unbound
  /\ clipper = [pc |-> "idle"]
  /\ asr = [pc |-> "idle"]

\* the call: split the content and initialise the locals
parse ==
  /\ pc = "idle"
  /\ \E n \in 1..MaxLines : \E ls \in [1..n -> LineSet] :
       LET content == Join(ls) IN lines' = Split(content)
  /\ i' = 0
  /\ html_lines' = <<>>
  /\ in_code_block' = FALSE
  /\ code_content' = <<>>
  /\ in_list' = FALSE
  /\ list_items' = <<>>
  /\ in_blockquote' = FALSE
  /\ blockquote_content' = <<>>
  /\ pc' = "loop"
  /\ UNCHANGED <<article, title, main_vars, skill_vars>>

\* one iteration of the for loop
LoopBody ==
  /\ pc = "loop"
  /\ i < Len(lines)
  /\ LET st == Step(Locals, CurLine)
     IN  IF st.raised
         THEN pc' = "raised" /\ Assign(Locals)
         ELSE pc' = "loop" /\ Assign(st)
  /\ i' = i + 1
  /\ UNCHANGED <<lines, article, title, main_vars, skill_vars>>

\* the code after the loop, up to the return
Finalize ==
  /\ pc = "loop"
  /\ i = Len(lines)
  /\ Assign(Finish(Locals))
  /\ pc' = "done"
  /\ UNCHANGED <<lines, i, article, title, main_vars, skill_vars>>

Next == parse \/ LoopBody \/ Finalize

Spec == Init /\ [][Next]_vars

\* The steps of Next that change i are the LoopBody steps, and those that
\* change pc at the end of the lines are the Finalize steps.
Advance == pc = "loop" /\ i < Len(lines) /\ i' = i + 1

Return == pc = "loop" /\ i = Len(lines) /\ pc' = "done"

\* the interpreter keeps running the call: the loop advances while lines
\* are left, and the code after the loop runs when none is left
FairSpec == Spec /\ WF_i(Advance) /\ WF_pc(Return)

(***************************************************************************)
(* parse on other families of contents.  The state space of Spec grows     *)
(* with the eleven lines of LineSet to the power MaxLines; the families    *)
(* below trade the variety of the lines against the length of the input.   *)
(***************************************************************************)
\* Call with the accumulators kept on the instance: a call starts from
\* what the call before it left
Call_KeepAccumulators(S, n) ==
  /\ pc = "idle"
  /\ \E m \in 1..n : \E ls \in [1..m -> S] :
       LET content == Join(ls) IN lines' = Split(content)
  /\ i' = 0
  /\ pc' = "loop"
  /\ UNCHANGED <<html_lines, in_code_block, code_content, in_list,
                 list_items, in_blockquote, blockquote_content>>
  /\ UNCHANGED <<article, title, main_vars, skill_vars>>

\* the call of parse on a content of at most n lines taken from S
Call(S, n) ==
  /\ pc = "idle"
  /\ \E m \in 1..n : \E ls \in [1..m -> S] :
       LET content == Join(ls) IN lines' = Split(content)
  /\ i' = 0
  /\ html_lines' = <<>>
  /\ in_code_block' = FALSE
  /\ code_content' = <<>>
  /\ in_list' = FALSE
  /\ list_items' = <<>>
  /\ in_blockquote' = FALSE
  /\ blockquote_content' = <<>>
  /\ pc' = "loop"
  /\ UNCHANGED <<article, title, main_vars, skill_vars>>

\* longest input of list items, blank lines and text
MaxListLines == 4

\* list items, a blank line, a whitespace-only line and plain text lines
ListLines ==
  { <<"-", " ", "i">>,
    <<"*", " ", "*", "j", "*">>,
    <<>>,
    <<" ">>,
    <<"t">>,
    <<BT, "p", BT, "&", "\"", "'">> }

parse_list == Call(ListLines, MaxListLines)

ListNext == parse_list \/ LoopBody \/ Finalize

ListSpec == Init /\ [][ListNext]_vars

\* longest input of lines with inline markers and headings
MaxTextLines == 2

\* inline markers in paragraphs, in a list item and in a blockquote line,
\* a fence, and headings of every level
TextLines ==
  { <<"!", "[", "a", "]", "(", "u", ")">>,
    <<"!", "[", "]", "(", "u", ")">>,
    <<"[", "l", "]", "(", "u", ")">>,
    <<"*", "*", "b", "*", "*">>,
    <<BT, "*", "c", "*", BT>>,
    <<"~", "~", "d", "~", "~">>,
    <<"-", " ", "!", "[", "q", "]", "(", "r", ")">>,
    <<">", " ", "*", "e", "*", " ", "<">>,
    <<BT, BT, BT>>,
    <<"#", " ", "h">>,
    <<"#", "#", " ", "y">>,
    <<"#", "#", "#", " ", "*", "s", "*", "<">>,
    <<"#", "#", "#", "#", " ", "f">>,
    <<"#", "#", "#", "#", "#", " ", "g">>,
    <<"#", "#", "#", "#", "#", "#", " ", "k">>,
    <<"#", "#", "#", "#", "#", "#", "#", " ", "z">> }

parse_text == Call(TextLines, MaxTextLines)

TextNext == parse_text \/ LoopBody \/ Finalize

TextSpec == Init /\ [][TextNext]_vars

\* longest article file, in lines
MaxArticleLines == 3

\* lines of an article file: '# ' lines with and without surrounding
\* blanks, a '#' line without the blank, a deeper heading, a fence, text
ArticleLines ==
  { <<"#", " ", "h">>,
    <<" ", "#", " ", "t", " ">>,
    <<"#", " ", "g", "<">>,
    <<"#", "x">>,
    <<"#", "#", " ", "s">>,
    <<BT, BT, BT>>,
    <<"b">> }

\* the title argument of format_article: absent, or given by the caller
TitleArgs == {<<>>, <<"T">>}

\* format_article up to content = input_file.read_text()
read_text ==
  /\ pc = "idle"
  /\ \E n \in 1..MaxArticleLines : \E ls \in [1..n -> ArticleLines] :
       article' = Join(ls)
  /\ \E t \in TitleArgs : title' = t
  /\ pc' = "read"
  /\ UNCHANGED <<lines, i, html_lines, in_code_block, code_content, in_list,
                 list_items, in_blockquote, blockquote_content,
                 main_vars, skill_vars>>

\* if not title: title = self.extract_title(content)
set_title ==
  /\ pc = "read"
  /\ title' = IF title = <<>> THEN extract_title(article) ELSE title
  /\ pc' = "titled"
  /\ UNCHANGED <<article, lines, i, html_lines, in_code_block, code_content,
                 in_list, list_items, in_blockquote, blockquote_content,
                 main_vars, skill_vars>>

\* body_html = self.parser.parse(content): the call
parse_article ==
  /\ pc = "titled"
  /\ lines' = Split(article)
  /\ i' = 0
  /\ html_lines' = <<>>
  /\ in_code_block' = FALSE
  /\ code_content' = <<>>
  /\ in_list' = FALSE
  /\ list_items' = <<>>
  /\ in_blockquote' = FALSE
  /\ blockquote_content' = <<>>
  /\ pc' = "loop"
  /\ UNCHANGED <<article, title, main_vars, skill_vars>>

ArticleNext == read_text \/ set_title \/ parse_article \/ LoopBody \/ Finalize

ArticleSpec == Init /\ [][ArticleNext]_vars

\* longest input of lines that look like more than one kind of block
MaxClassLines == 2

\* '>' before a rule, a heading and an item; rules with and without
\* text; an item, a '-' line that is neither; '#' lines; a blank line
ClassLines ==
  { <<">", "-", "-", "-">>,
    <<">", " ", "#", " ", "h">>,
    <<">", "-", " ", "i">>,
    <<"-", "-", "-">>,
    <<"-", "-", "-", " ", "x">>,
    <<"-", " ", "i">>,
    <<"*", " ", "-", "-", "-">>,
    <<"-", "x">>,
    <<"#", " ", "-", "-", "-">>,
    <<"#", "#", "#", "#", "#", "#", "#", " ", "z">>,
    <<" ">> }

parse_class == Call(ClassLines, MaxClassLines)

ClassNext == parse_class \/ LoopBody \/ Finalize

ClassSpec == Init /\ [][ClassNext]_vars

\* longest input of fences among list and blockquote lines
MaxFenceLines == 4

\* a fence, a line of code, a list item, a blockquote line
FenceLines ==
  { <<BT, BT, BT>>,
    <<"c", "<">>,
    <<"-", " ", "i">>,
    <<">", " ", "q">> }

parse_fence == Call(FenceLines, MaxFenceLines)

FenceNext == parse_fence \/ LoopBody \/ Finalize

FenceSpec == Init /\ [][FenceNext]_vars

\* longest input of a call that follows other calls
MaxRepeatLines == 2

\* a line for each context of the parser
RepeatLines ==
  { <<>>,
    <<BT, BT, BT>>,
    <<">", " ", "a">>,
    <<"-", " ", "i">>,
    <<"#", " ", "h">>,
    <<"p">> }

parse_repeat == Call(RepeatLines, MaxRepeatLines)

\* return '\n'.join(html_lines): the instance is ready for the next call
parse_return ==
  /\ pc = "done"
  /\ pc' = "idle"
  /\ UNCHANGED <<lines, i, html_lines, in_code_block, code_content, in_list,
                 list_items, in_blockquote, blockquote_content,
                 article, title, main_vars, skill_vars>>

RepeatNext == parse_repeat \/ LoopBody \/ Finalize \/ parse_return

RepeatSpec == Init /\ [][RepeatNext]_vars

(***************************************************************************)
(* main of wechat-article and the rest of format_article.  A text of the   *)
(* program that is not ASCII is written one token per character, a         *)
(* message built from an exception is one token.  cover and images are     *)
(* absent.                                                                 *)
(***************************************************************************)
\* the fields of the bundles that _generate_html writes into the page
THEMES ==
  [elegant |->
     [name |-> <<"U+4F18", "U+96C5", "U+7B80", "U+6D01">>,
      bg_color |-> "#ffffff", text_color |-> "#333333",
      link_color |-> "#57606a", header_color |-> "#1f2328",
      border_radius |-> "8px"],
   dark |->
     [name |-> <<"U+6697", "U+9ED1", "U+98CE", "U+683C">>,
      bg_color |-> "#1a1a1a", text_color |-> "#e0e0e0",
      link_color |-> "#8ab4f8", header_color |-> "#ffffff",
      border_radius |-> "8px"],
   blue |->
     [name |-> <<"U+84DD", "U+8272", "U+6E05", "U+65B0">>,
      bg_color |-> "#f0f7ff", text_color |-> "#333333",
      link_color |-> "#0366d6", header_color |-> "#0366d6",
      border_radius |-> "12px"],
   pink |->
     [name |-> <<"U+7C89", "U+8272", "U+53EF", "U+7231">>,
      bg_color |-> "#fff5f5", text_color |-> "#4a4a4a",
      link_color |-> "#e91e63", header_color |-> "#c2185b",
      border_radius |-> "16px"],
   minimal |->
     [name |-> <<"U+6781", "U+7B80", "U+767D">>,
      bg_color |-> "#ffffff", text_color |-> "#222222",
      link_color |-> "#666666", header_color |-> "#000000",
      border_radius |-> "4px"]]

\* DEFAULT_THEME with a bundle that is not the first one
DEFAULT_THEME_Dark == "dark"

DEFAULT_THEME == "elegant"

\* a key that the request does not have
Absent == "absent"

\* a JSON array or object where a string is expected: not hashable
Unhashable == "unhashable"

\* the values of "theme" in a request
ThemeArgs ==
  {Absent, None, "elegant", "dark", "blue", "pink", "minimal", "other",
   Unhashable}

\* the values of "input": no value, a path without a file, a file
InputArgs == {None, "missing.md", "in.md"}

\* the values of "output"
OutputArgs == {None, "out.html"}

\* the requests main can read from stdin
Payloads ==
  [kind : {"empty", "not_json", "not_object"},
   input : {None}, output : {None}, theme : {Absent}, title : {<<>>}]
  \cup
  [kind : {"object"}, input : InputArgs, output : OutputArgs,
   theme : ThemeArgs, title : TitleArgs]

\* the result objects that report a failure
Failure(error) ==
  [success |-> FALSE, output_path |-> None, title |-> <<None>>,
   word_count |-> 0, error |-> error]

\* longest article file read by main, in lines
MaxMainLines == 1

\* main_reject without the handler of Exception: the AttributeError of
\* data.get on a value that is not an object ends main
main_reject_NoHandler ==
  /\ pc = "idle"
  /\ \E p \in Payloads :
       /\ payload' = p
       /\ \/ /\ p.kind = "empty"
             /\ stdout' = Append(stdout, Failure("no input data"))
          \/ /\ p.kind = "not_json"
             /\ stdout' = Append(stdout, Failure("JSONDecodeError"))
          \/ /\ p.kind = "not_object"
             /\ UNCHANGED stdout
          \/ /\ p.kind = "object"
             /\ p.input = None \/ p.output = None
             /\ stdout' = Append(stdout, Failure("missing input and output"))
  /\ pc' = "exit"
  /\ UNCHANGED <<lines, i, html_lines, in_code_block, code_content, in_list,
                 list_items, in_blockquote, blockquote_content,
                 article, title, theme, result, output_file, skill_vars>>

\* main up to the early returns and the two handlers: a request that
\* never reaches format_article prints one failure
main_reject ==
  /\ pc = "idle"
  /\ \E p \in Payloads :
       /\ payload' = p
       /\ \/ /\ p.kind = "empty"
             /\ stdout' = Append(stdout, Failure("no input data"))
          \/ /\ p.kind = "not_json"
             /\ stdout' = Append(stdout, Failure("JSONDecodeError"))
          \/ /\ p.kind = "not_object"
             /\ stdout' = Append(stdout, Failure("AttributeError"))
          \/ /\ p.kind = "object"
             /\ p.input = None \/ p.output = None
             /\ stdout' = Append(stdout, Failure("missing input and output"))
  /\ pc' = "exit"
  /\ UNCHANGED <<lines, i, html_lines, in_code_block, code_content, in_list,
                 list_items, in_blockquote, blockquote_content,
                 article, title, theme, result, output_file, skill_vars>>

\* main up to the call of format_article
main_call ==
  /\ pc = "idle"
  /\ \E p \in Payloads :
       /\ p.kind = "object"
       /\ p.input # None /\ p.output # None
       /\ payload' = p
       /\ theme' = IF p.theme = Absent THEN DEFAULT_THEME ELSE p.theme
       /\ title' = p.title
  /\ pc' = "called"
  /\ UNCHANGED <<lines, i, html_lines, in_code_block, code_content, in_list,
                 list_items, in_blockquote, blockquote_content,
                 article, result, stdout, output_file, skill_vars>>

\* if not input_file.exists(): return the failure
not_exists ==
  /\ pc = "called"
  /\ payload.input = "missing.md"
  /\ result' = Failure("file not found")
  /\ pc' = "returned"
  /\ UNCHANGED <<lines, i, html_lines, in_code_block, code_content, in_list,
                 list_items, in_blockquote, blockquote_content,
                 article, title, payload, theme, stdout, output_file,
                 skill_vars>>

\* content = input_file.read_text(): the content, or the handler of the
\* exception that the read raised
read_input ==
  /\ pc = "called"
  /\ payload.input = "in.md"
  /\ \/ /\ \E n \in 1..MaxMainLines : \E ls \in [1..n -> ArticleLines] :
               article' = Join(ls)
        /\ pc' = "read"
        /\ UNCHANGED result
     \/ /\ result' = Failure("OSError")
        /\ pc' = "returned"
        /\ UNCHANGED article
  /\ UNCHANGED <<lines, i, html_lines, in_code_block, code_content, in_list,
                 list_items, in_blockquote, blockquote_content,
                 title, payload, theme, stdout, output_file, skill_vars>>

\* the page of _generate_html: the title, the body and the theme fields
html_content(t, body, theme_config) ==
  [title |-> t, body |-> body,
   bg_color |-> theme_config.bg_color,
   text_color |-> theme_config.text_color,
   link_color |-> theme_config.link_color,
   header_color |-> theme_config.header_color,
   border_radius |-> theme_config.border_radius]

\* THEMES.get(theme, THEMES[DEFAULT_THEME])
theme_config ==
  IF theme \in DOMAIN THEMES THEN THEMES[theme] ELSE THEMES[DEFAULT_THEME]

\* format_article after the parse: the theme, the page, the output file
\* and the result; the lookup of a theme that is not hashable and a write
\* that fails end in the handler
generate ==
  /\ pc = "done"
  /\ \/ /\ theme = Unhashable
        /\ result' = Failure("TypeError")
        /\ UNCHANGED output_file
     \/ /\ theme # Unhashable
        /\ result' = Failure("OSError")
        /\ UNCHANGED output_file
     \/ /\ theme # Unhashable
        /\ output_file' = html_content(title, html_lines, theme_config)
        /\ result' =
             [success |-> TRUE, output_path |-> payload.output,
              title |-> title, theme |-> theme_config.name,
              word_count |-> Len(article), error |-> None]
  /\ pc' = "returned"
  /\ UNCHANGED <<lines, i, html_lines, in_code_block, code_content, in_list,
                 list_items, in_blockquote, blockquote_content,
                 article, title, payload, theme, stdout, skill_vars>>

\* print(json.dumps(result)) after the call
main_print ==
  /\ pc = "returned"
  /\ stdout' = Append(stdout, result)
  /\ pc' = "exit"
  /\ UNCHANGED <<lines, i, html_lines, in_code_block, code_content, in_list,
                 list_items, in_blockquote, blockquote_content,
                 article, title, payload, theme, result, output_file,
                 skill_vars>>

MainNext ==
  \/ main_reject
  \/ main_call
  \/ not_exists
  \/ read_input
  \/ set_title
  \/ parse_article
  \/ LoopBody
  \/ Finalize
  \/ generate
  \/ main_print

MainSpec == Init /\ [][MainNext]_vars

\* The steps of MainNext that change pc outside the loop of parse are the
\* statements of main and of format_article, one after the other.
Proceed ==
  \/ pc = "idle" /\ pc' \in {"called", "exit"}
  \/ pc = "called" /\ pc' \in {"read", "returned"}
  \/ pc = "read" /\ pc' = "titled"
  \/ pc = "titled" /\ pc' = "loop"
  \/ pc = "done" /\ pc' = "returned"
  \/ pc = "returned" /\ pc' = "exit"

\* the interpreter keeps running main
FairMainSpec == MainSpec /\ WF_i(Advance) /\ WF_pc(Return) /\ WF_pc(Proceed)

(***************************************************************************)
(* VideoClipper.process of video-clipper.  The record clipper holds the    *)
(* arguments and the locals of one call; what an operation returns is one  *)
(* of the dicts its code can return, a success or a failure that carries    *)
(* the text of the failure.                                                 *)
(***************************************************************************)
\* the dicts an operation writing to path can return
Op(path, diagnostic) ==
  { [success |-> TRUE, output_path |-> path, error |-> None],
    [success |-> FALSE, output_path |-> None, error |-> diagnostic] }

merge_videos(output) == Op(output, "merge: diagnostic")

add_subtitle(temp_path) == Op(temp_path, "subtitle: diagnostic")

add_music(final_path) == Op(final_path, "music: diagnostic")

create_clip(output) == Op(output, "clip: diagnostic")

\* the requests: one or two inputs, with or without clips, subtitle, music
Requests ==
  [inputs : {<<"a.mp4">>, <<"a.mp4", "b.mp4">>},
   output : {"o.mp4"},
   clips : {<<>>, <<<<0, 5>>>>},
   subtitle : {None, "hi"},
   music : {None, "m.mp3"}]

\* the call and step 1: input_path = inputs[0] on both branches
clipper_process ==
  /\ clipper.pc = "idle"
  /\ \E r \in Requests :
       clipper' = [pc |-> "merge", request |-> r, input_path |-> r.inputs[1],
                   merge_result |-> Unbound, subtitle_result |-> Unbound,
                   music_result |-> Unbound, result |-> Unbound]
  /\ UNCHANGED <<pc, lines, i, html_lines, in_code_block, code_content,
                 in_list, list_items, in_blockquote, blockquote_content,
                 article, title, main_vars, asr>>

\* step 2: merge when there are several inputs; a failed merge is returned
clipper_merge ==
  /\ clipper.pc = "merge"
  /\ IF Len(clipper.request.inputs) > 1
     THEN \E merge_result \in merge_videos(clipper.request.output) :
            IF ~merge_result.success
            THEN clipper' = [clipper EXCEPT !.merge_result = merge_result,
                                            !.result = merge_result,
                                            !.pc = "returned"]
            ELSE clipper' = [clipper EXCEPT !.merge_result = merge_result,
                                            !.input_path = clipper.request.output,
                                            !.pc = "subtitle"]
     ELSE clipper' = [clipper EXCEPT !.pc = "subtitle"]
  /\ UNCHANGED <<pc, lines, i, html_lines, in_code_block, code_content,
                 in_list, list_items, in_blockquote, blockquote_content,
                 article, title, main_vars, asr>>

\* step 3: the subtitle; its result only moves input_path
clipper_subtitle ==
  /\ clipper.pc = "subtitle"
  /\ IF clipper.request.subtitle # None
     THEN \E subtitle_result \in add_subtitle("o_temp.mp4") :
            IF subtitle_result.success
            THEN clipper' = [clipper EXCEPT !.subtitle_result = subtitle_result,
                                            !.input_path = "o_temp.mp4",
                                            !.pc = "music"]
            ELSE clipper' = [clipper EXCEPT !.subtitle_result = subtitle_result,
                                            !.pc = "music"]
     ELSE clipper' = [clipper EXCEPT !.pc = "music"]
  /\ UNCHANGED <<pc, lines, i, html_lines, in_code_block, code_content,
                 in_list, list_items, in_blockquote, blockquote_content,
                 article, title, main_vars, asr>>

\* step 4: the music; only a success is returned
clipper_music ==
  /\ clipper.pc = "music"
  /\ IF clipper.request.music # None
     THEN \E music_result \in add_music(clipper.request.output) :
            IF music_result.success
            THEN clipper' = [clipper EXCEPT !.music_result = music_result,
                                            !.result = music_result,
                                            !.pc = "returned"]
            ELSE clipper' = [clipper EXCEPT !.music_result = music_result,
                                            !.pc = "rest"]
     ELSE clipper' = [clipper EXCEPT !.pc = "rest"]
  /\ UNCHANGED <<pc, lines, i, html_lines, in_code_block, code_content,
                 in_list, list_items, in_blockquote, blockquote_content,
                 article, title, main_vars, asr>>

\* the three returns at the end: the clip, the merge, the single video
clipper_return ==
  /\ clipper.pc = "rest"
  /\ IF Len(clipper.request.clips) > 0
     THEN \E clip_result \in create_clip(clipper.request.output) :
            clipper' = [clipper EXCEPT !.result = clip_result,
                                       !.pc = "returned"]
     ELSE IF Len(clipper.request.inputs) > 1
     THEN clipper' = [clipper EXCEPT !.result = clipper.merge_result,
                                     !.pc = "returned"]
     ELSE clipper' =
            [clipper EXCEPT
               !.result = [success |-> TRUE,
                           output_path |-> clipper.input_path,
                           error |-> None],
               !.pc = "returned"]
  /\ UNCHANGED <<pc, lines, i, html_lines, in_code_block, code_content,
                 in_list, list_items, in_blockquote, blockquote_content,
                 article, title, main_vars, asr>>

ClipperNext ==
  \/ clipper_process
  \/ clipper_merge
  \/ clipper_subtitle
  \/ clipper_music
  \/ clipper_return

ClipperSpec == Init /\ [][ClipperNext]_vars

(***************************************************************************)
(* AudioExtractorASR.process of audio-extractor.  The record asr holds the *)
(* arguments and the locals of one call.  A local is Unbound until the     *)
(* code assigns it; raised is the exception that left process, if any.     *)
(***************************************************************************)
\* the dicts extract_audio can return
extract_audio ==
  { [success |-> TRUE, audio_path |-> "out/audio_v.wav",
     duration |-> [value |-> 12], error |-> None],
    [success |-> FALSE, audio_path |-> None,
     duration |-> Unbound, error |-> "no audio track"],
    [success |-> FALSE, audio_path |-> None,
     duration |-> Unbound, error |-> "moviepy not installed"] }

\* the numbers of segments transcribe_audio can return: those of whisper
\* and the three of _demo_transcription
transcribe_audio == {0, 2, 3}

\* the failure results of process
AsrFailure(error) ==
  [success |-> FALSE, audio_path |-> None, subtitle_path |-> None,
   duration |-> 0, segments |-> 0, error |-> error]

\* the path of the subtitle file in the output directory
subtitle_path(format) ==
  CASE format = "srt" -> "out/subtitles.srt"
    [] format = "vtt" -> "out/subtitles.vtt"
    [] OTHER -> "out/subtitles.json"

\* the call, the test of the video and the output directory
asr_process ==
  /\ asr.pc = "idle"
  /\ \E video \in {"v.mp4", "missing.mp4"} :
     \E format \in {"srt", "vtt", "json"} :
     \E flag \in BOOLEAN :
       LET call == [pc |-> "extract", video |-> video, format |-> format,
                    extract_audio |-> flag, audio_path |-> None,
                    duration |-> Unbound, transcribed |-> None,
                    segments |-> 0, subtitle_path |-> None,
                    result |-> Unbound, raised |-> None]
       IN  \/ /\ video = "missing.mp4"
              /\ asr' = [call EXCEPT !.result = AsrFailure("video not found"),
                                     !.pc = "returned"]
           \/ /\ video = "v.mp4"
              /\ asr' = call
           \/ /\ video = "v.mp4"
              /\ asr' = [call EXCEPT !.raised = "OSError", !.pc = "raised"]
  /\ UNCHANGED <<pc, lines, i, html_lines, in_code_block, code_content,
                 in_list, list_items, in_blockquote, blockquote_content,
                 article, title, main_vars, clipper>>

\* step 1: the audio, when it is asked for
asr_extract ==
  /\ asr.pc = "extract"
  /\ IF asr.extract_audio
     THEN \E audio_result \in extract_audio :
            IF ~audio_result.success
            THEN asr' = [asr EXCEPT
                           !.result = AsrFailure(audio_result.error),
                           !.pc = "returned"]
            ELSE asr' = [asr EXCEPT
                           !.audio_path = audio_result.audio_path,
                           !.duration = audio_result.duration,
                           !.pc = "transcribe"]
     ELSE asr' = [asr EXCEPT !.pc = "transcribe"]
  /\ UNCHANGED <<pc, lines, i, html_lines, in_code_block, code_content,
                 in_list, list_items, in_blockquote, blockquote_content,
                 article, title, main_vars, clipper>>

\* step 2: the recognition, on the audio file if there is one
asr_transcribe ==
  /\ asr.pc = "transcribe"
  /\ \E exists \in BOOLEAN : \E segments \in transcribe_audio :
       asr' = [asr EXCEPT
                 !.transcribed = IF asr.audio_path # None /\ exists
                                 THEN asr.audio_path ELSE asr.video,
                 !.segments = segments,
                 !.pc = "write"]
  /\ UNCHANGED <<pc, lines, i, html_lines, in_code_block, code_content,
                 in_list, list_items, in_blockquote, blockquote_content,
                 article, title, main_vars, clipper>>

\* step 3: the subtitle file; a failure of open or write leaves process
asr_write ==
  /\ asr.pc = "write"
  /\ \/ asr' = [asr EXCEPT !.subtitle_path = subtitle_path(asr.format),
                            !.pc = "return"]
     \/ asr' = [asr EXCEPT !.raised = "OSError", !.pc = "raised"]
  /\ UNCHANGED <<pc, lines, i, html_lines, in_code_block, code_content,
                 in_list, list_items, in_blockquote, blockquote_content,
                 article, title, main_vars, clipper>>

\* the return: the dict is built from the locals, duration among them
asr_return ==
  /\ asr.pc = "return"
  /\ IF asr.duration = Unbound
     THEN asr' = [asr EXCEPT !.raised = "UnboundLocalError", !.pc = "raised"]
     ELSE asr' = [asr EXCEPT
                    !.result = [success |-> TRUE,
                                audio_path |-> asr.audio_path,
                                subtitle_path |-> asr.subtitle_path,
                                duration |-> asr.duration.value,
                                segments |-> asr.segments,
                                format |-> asr.format,
                                error |-> None],
                    !.pc = "returned"]
  /\ UNCHANGED <<pc, lines, i, html_lines, in_code_block, code_content,
                 in_list, list_items, in_blockquote, blockquote_content,
                 article, title, main_vars, clipper>>

AsrNext ==
  \/ asr_process
  \/ asr_extract
  \/ asr_transcribe
  \/ asr_write
  \/ asr_return

AsrSpec == Init /\ [][AsrNext]_vars

(***************************************************************************)
(* Vocabulary of the properties                                            *)
(***************************************************************************)
\* the blocks a step appends to the output
Added == SubSeq(html_lines', Len(html_lines) + 1, Len(html_lines'))

\* a step only appends to the output
Extends ==
  /\ Len(html_lines') >= Len(html_lines)
  /\ SubSeq(html_lines', 1, Len(html_lines)) = html_lines

\* a step that processes the line CurLine
LineStep == pc = "loop" /\ i < Len(lines) /\ pc' = "loop"

\* the step that handles the end of the input
EndStep == pc = "loop" /\ pc' = "done"

CountTag(blocks, tags) ==
  Cardinality({k \in 1..Len(blocks) : blocks[k].tag \in tags})

CodeBlockOf(buf) ==
  [tag |-> "pre", level |-> 0, size |-> 0, body |-> <<escape(Join(buf))>>]

BlockquoteOf(buf) ==
  [tag |-> "blockquote", level |-> 0, size |-> 0,
   body |-> [k \in 1..Len(buf) |-> _format_inline(buf[k])]]

ListOf(buf) ==
  [tag |-> "ul", level |-> 0, size |-> 0,
   body |-> [k \in 1..Len(buf) |-> _format_inline(buf[k])]]

IsQuoteLine(l) == StartsWith(RStrip(l), <<">">>)

IsFenceLine(l) == StartsWith(RStrip(l), Fence)

IsBlank(l) == RStrip(l) = <<>>

IsItemLine(l) ==
  StartsWith(RStrip(l), <<"-", " ">>) \/ StartsWith(RStrip(l), <<"*", " ">>)

(***************************************************************************)
(* C1                                                                      *)
(***************************************************************************)
\* C1: between two input lines at most one of the three accumulation
\* contexts (open fence, open blockquote, open list) is active.
C1_OneContext ==
  pc = "loop" =>
    /\ ~(in_code_block /\ in_blockquote)
    /\ ~(in_code_block /\ in_list)
    /\ ~(in_blockquote /\ in_list)

(***************************************************************************)
(* C2                                                                      *)
(***************************************************************************)
\* what is still buffered when the loop ends
Pending ==
  (IF in_code_block /\ code_content # <<>>
   THEN <<CodeBlockOf(code_content)>> ELSE <<>>)
  \o (IF blockquote_content # <<>>
      THEN <<BlockquoteOf(blockquote_content)>> ELSE <<>>)
  \o (IF list_items # <<>> THEN <<ListOf(list_items)>> ELSE <<>>)

C2_AllEmitted ==
  pc = "done" =>
    /\ i = Len(lines)
    /\ Len(html_lines) >= Len(Pending)
    /\ SubSeq(html_lines, Len(html_lines) - Len(Pending) + 1, Len(html_lines))
         = Pending

\* C2: for every input, parse never raises, it reaches its return having
\* processed every line, and at the return every buffer that holds content
\* (code buffer of an open fence, blockquote buffer, list buffer) has been
\* emitted as a block at the end of the output.
C2_TerminatesFlushed ==
  /\ [](pc # "raised")
  /\ []C2_AllEmitted
  /\ ((pc = "loop") ~> (pc = "done"))

\* a return with a blockquote and a list both open, both emitted at the end
C2_Witness ==
  /\ pc = "done"
  /\ in_blockquote /\ in_list
  /\ Len(html_lines) >= 2
  /\ html_lines[Len(html_lines) - 1].tag = "blockquote"

Owed(fenceOpen) ==
  (IF fenceOpen THEN <<CodeBlockOf(code_content)>> ELSE <<>>)
  \o (IF in_blockquote THEN <<BlockquoteOf(blockquote_content)>> ELSE <<>>)
  \o (IF in_list THEN <<ListOf(list_items)>> ELSE <<>>)

\* an input of list-item lines only ends as one List of all of them
OnlyItems ==
  (\A k \in 1..Len(lines) : IsItemLine(lines[k])) =>
     html_lines' =
       <<ListOf([k \in 1..Len(lines) |-> Strip(Drop(RStrip(lines[k]), 2))])>>

\* C4 as stated: at the end of the input every open accumulator (fence,
\* blockquote, list) is emitted as its block.
C4_FlushOpen ==
  [][EndStep => Extends /\ Added = Owed(in_code_block) /\ OnlyItems]_vars

\* C4 amended: at the end of the input an open blockquote and an open list
\* are emitted as their blocks, and an open fence is emitted as a CodeBlock
\* when its buffer holds at least one line; an open fence with an empty
\* buffer emits nothing.
C4_FlushOpenNonEmpty ==
  [][EndStep =>
       /\ Extends
       /\ Added = Owed(in_code_block /\ code_content # <<>>)
       /\ OnlyItems]_vars

\* the input ended inside a fence that holds lines, with a list open too
C4_Witness ==
  /\ pc = "done"
  /\ in_code_block /\ code_content # <<>> /\ in_list
  /\ html_lines # <<>>
  /\ html_lines[Len(html_lines)].tag = "ul"

(***************************************************************************)
(* C5                                                                      *)
(***************************************************************************)
\* C5: while a list is open, a line that is not a list item (a blank line
\* included) closes the list, and its List block is appended before any
\* block produced from that line.
C5_ListFlushedFirst ==
  [][LineStep /\ in_list /\ ~IsListItem(CurLine) =>
       /\ ~in_list'
       /\ Extends
       /\ \E k \in 1..Len(Added) :
            /\ Added[k] = ListOf(list_items)
            /\ \A j \in 1..(k - 1) : Added[j].tag = "blockquote"]_vars

(***************************************************************************)
(* C6                                                                      *)
(***************************************************************************)
\* C6: a non-blank line that does not start with '>', processed while a
\* blockquote is open, closes the blockquote, and the Blockquote block is
\* appended before any block produced from that line.
C6_QuoteClosedFirst ==
  [][LineStep /\ in_blockquote /\ CurLine # <<>>
        /\ ~StartsWith(CurLine, <<">">>) =>
       /\ ~in_blockquote'
       /\ Extends
       /\ Len(Added) >= 1
       /\ Added[1] = BlockquoteOf(blockquote_content)]_vars

(***************************************************************************)
(* C7                                                                      *)
(***************************************************************************)
\* from line k on the input is one run of '>' lines and blank lines that
\* starts with a '>' line, and no '>' line or fence line comes before it
QuoteRunFrom(k) ==
  /\ IsQuoteLine(lines[k])
  /\ \A j \in k..Len(lines) : IsQuoteLine(lines[j]) \/ IsBlank(lines[j])
  /\ \A j \in 1..(k - 1) : ~IsQuoteLine(lines[j]) /\ ~IsFenceLine(lines[j])

\* the stripped texts of the '>' lines from line k on, in input order
RunTexts(k) ==
  LET run == SelectSeq(SubSeq(lines, k, Len(lines)), IsQuoteLine)
  IN  [j \in 1..Len(run) |-> Strip(Drop(RStrip(run[j]), 1))]

IsBlockquote(b) == b.tag = "blockquote"

C7_OneBlockquote ==
  pc = "done" =>
    \A k \in 1..Len(lines) :
      QuoteRunFrom(k) =>
        SelectSeq(html_lines, IsBlockquote) = <<BlockquoteOf(RunTexts(k))>>

C7_BlankKeeps ==
  LineStep /\ in_blockquote /\ CurLine = <<>> =>
    /\ in_blockquote'
    /\ blockquote_content' = blockquote_content
    /\ CountTag(Added, {"blockquote"}) = 0

Entities == {"&amp;", "&lt;", "&gt;", "&quot;", "&#39;"}

Special == {"&", "<", ">", "\"", "'"}

InlineTags ==
  {"<code>", "</code>", "<strong>", "</strong>", "<em>", "</em>",
   "<del>", "</del>", "<a href=\"", "\">", "</a>",
   "<img src=\"", "\" alt=\"", "\"/>"}

\* the character an entity stands for
Decode(t) ==
  CASE t = "&amp;"  -> "&"
    [] t = "&lt;"   -> "<"
    [] t = "&gt;"   -> ">"
    [] t = "&quot;" -> "\""
    [] t = "&#39;"  -> "'"
    [] OTHER        -> t

Unescape(text) == [k \in 1..Len(text) |-> Decode(text[k])]

Tokens(text) == {text[k] : k \in 1..Len(text)}

\* b is a CodeBlock of the buffered lines buf: joined by newline, every
\* special character replaced by its entity, nothing substituted
IsCodeBlockOf(b, buf) ==
  /\ b.tag = "pre"
  /\ Len(b.body) = 1
  /\ Len(b.body[1]) = Len(Join(buf))
  /\ Unescape(b.body[1]) = Join(buf)
  /\ Tokens(b.body[1]) \cap Special = {}
  /\ Tokens(b.body[1]) \cap InlineTags = {}

C8_CloseEmits ==
  LineStep /\ in_code_block /\ StartsWith(CurLine, Fence) =>
    /\ Extends
    /\ Len(Added) = 1
    /\ IsCodeBlockOf(Added[1], code_content)

C8_NeverFormatted ==
  \A k \in 1..Len(html_lines) :
    html_lines[k].tag = "pre" =>
      Tokens(html_lines[k].body[1]) \cap (InlineTags \cup Special) = {}

\* C8: closing a fence appends exactly one CodeBlock whose content is the
\* buffered lines joined by newline with each of < > & " ' replaced by its
\* entity, and no CodeBlock of the output ever holds an inline tag.
C8_CodeBlockEscaped == []C8_NeverFormatted /\ [][C8_CloseEmits]_vars

\* a closed fence whose CodeBlock holds entities and an untouched code span
C8_Witness ==
  /\ pc = "loop"
  /\ ~in_code_block /\ code_content # <<>>
  /\ \E k \in 1..Len(html_lines) :
       /\ html_lines[k].tag = "pre"
       /\ {"&amp;", "&quot;", "&#39;", BT} \subseteq Tokens(html_lines[k].body[1])

(***************************************************************************)
(* C9                                                                      *)
(***************************************************************************)
\* C9: while a fence is open, a line (trailing whitespace already trimmed
\* by the loop) that does not start with three backticks is appended as it
\* is to the code buffer, and nothing else changes: no block is emitted, no
\* list or blockquote state is touched and the fence stays open.
C9_FenceAbsorbs ==
  [][LineStep /\ in_code_block /\ ~StartsWith(CurLine, Fence) =>
       /\ code_content' = Append(code_content, CurLine)
       /\ in_code_block'
       /\ UNCHANGED <<html_lines, in_list, list_items,
                      in_blockquote, blockquote_content>>]_vars

\* an open fence that holds a '#' line and a '>' line, nothing emitted
C9_Witness ==
  /\ pc = "loop"
  /\ in_code_block
  /\ html_lines = <<>> /\ ~in_blockquote /\ ~in_list
  /\ \E k \in 1..Len(code_content) : StartsWith(code_content[k], <<"#">>)
  /\ \E k \in 1..Len(code_content) : StartsWith(code_content[k], <<">">>)

(***************************************************************************)
(* C10                                                                     *)
(***************************************************************************)
\* C10: the text of the Heading emitted for a heading line is the whole
\* remainder of the line after its leading '#' characters, trimmed.
C10_HeadingText ==
  [][LineStep /\ ~in_code_block /\ IsHeader(CurLine) =>
       /\ Len(html_lines') >= 1
       /\ html_lines'[Len(html_lines')].tag = "h"
       /\ html_lines'[Len(html_lines')].body =
            <<escape(Strip(Drop(CurLine, HashLevel(CurLine))))>>]_vars

(***************************************************************************)
(* C11                                                                     *)
(***************************************************************************)
LastOf(blocks) == blocks[Len(blocks)]

\* C11: outside a fence, a line that starts with n '#' characters (and so
\* not with '>') appends a Heading of level n exactly when 1 <= n <= 6;
\* with n >= 7 it appends no Heading and is handled by the later rules,
\* which make it a Paragraph of the whole line.
C11_HeadingLevels ==
  [][pc = "loop" /\ i < Len(lines) /\ ~in_code_block
        /\ StartsWith(CurLine, <<"#">>) =>
       /\ pc' = "loop"
       /\ Extends
       /\ Len(Added) >= 1
       /\ (HashLevel(CurLine) <= 6 =>
             /\ LastOf(Added).tag = "h"
             /\ LastOf(Added).level = HashLevel(CurLine)
             /\ CountTag(Added, {"h"}) = 1
             /\ CountTag(Added, {"p", "hr"}) = 0)
       /\ (HashLevel(CurLine) >= 7 =>
             /\ CountTag(Added, {"h"}) = 0
             /\ LastOf(Added).tag = "p"
             /\ LastOf(Added).body = <<_format_inline(CurLine)>>)]_vars

\* seven '#' gave a Paragraph, one '#' gave a Heading of level 1
C11_Witness ==
  /\ pc = "loop" /\ i = 2
  /\ HashLevel(lines[1]) = 7 /\ HashLevel(lines[2]) = 1
  /\ Len(html_lines) = 2
  /\ html_lines[1].tag = "p"
  /\ html_lines[2].tag = "h" /\ html_lines[2].level = 1

(***************************************************************************)
(* C12                                                                     *)
(***************************************************************************)
\* a non-blank line that no rule but the paragraph rule matches
IsPlainLine(l) ==
  /\ ~IsBlank(l)
  /\ ~IsFenceLine(l)
  /\ ~IsQuoteLine(l)
  /\ ~(StartsWith(l, <<"#">>) /\ HashLevel(l) <= 6)
  /\ ~StartsWith(l, <<"-", "-", "-">>)
  /\ ~IsItemLine(l)

\* the input is k list items, a blank line and a plain text line
ItemsBlankText(k) ==
  /\ Len(lines) = k + 2
  /\ \A j \in 1..k : IsItemLine(lines[j])
  /\ IsBlank(lines[k + 1])
  /\ IsPlainLine(lines[k + 2])

\* C12: an input of k >= 1 list-item lines, a blank line and one plain
\* text line gives exactly one List of the k items in input order and then
\* exactly one Paragraph, and nothing else.
C12_ListThenParagraph ==
  pc = "done" =>
    \A k \in 1..Len(lines) :
      ItemsBlankText(k) =>
        html_lines =
          << ListOf([j \in 1..k |-> Strip(Drop(RStrip(lines[j]), 2))]),
             [tag |-> "p", level |-> 0, size |-> 0,
              body |-> <<_format_inline(RStrip(lines[k + 2]))>>] >>

\* two different items, a blank line, a text line: a List of two, a Paragraph
C12_Witness ==
  /\ pc = "done"
  /\ ItemsBlankText(2)
  /\ lines[1] # lines[2]
  /\ Len(html_lines) = 2
  /\ html_lines[1].tag = "ul" /\ Len(html_lines[1].body) = 2
  /\ html_lines[2].tag = "p"

(***************************************************************************)
(* C13                                                                     *)
(***************************************************************************)
\* C13: outside a fence, a non-blank line that matches none of the fence,
\* blockquote, heading, rule and list-item rules is appended at once as
\* one Paragraph of that line alone; the blocks already in the output stay
\* as they are, so two such lines in a row give two Paragraphs.
C13_OwnParagraph ==
  [][pc = "loop" /\ i < Len(lines) /\ ~in_code_block
        /\ IsPlainLine(CurLine) =>
       /\ pc' = "loop"
       /\ Extends
       /\ Len(Added) >= 1
       /\ CountTag(Added, {"p"}) = 1
       /\ LastOf(Added) =
            [tag |-> "p", level |-> 0, size |-> 0,
             body |-> <<_format_inline(CurLine)>>]]_vars

\* two different plain lines in a row: two Paragraphs
C13_Witness ==
  /\ pc = "loop" /\ i = 2
  /\ IsPlainLine(lines[1]) /\ IsPlainLine(lines[2])
  /\ lines[1] # lines[2]
  /\ Len(html_lines) = 2
  /\ html_lines[1].tag = "p" /\ html_lines[2].tag = "p"
  /\ html_lines[1] # html_lines[2]

(***************************************************************************)
(* C14                                                                     *)
(***************************************************************************)
\* the blocks a step appends hold inline-formatted text
C14_Formatted ==
  pc = "loop" =>
    \A k \in 1..Len(Added) :
      /\ Added[k].tag = "p" => Added[k].body = <<_format_inline(CurLine)>>
      /\ Added[k].tag = "ul" =>
           Added[k].body =
             [j \in 1..Len(list_items) |-> _format_inline(list_items[j])]
      /\ Added[k].tag = "blockquote" =>
           Added[k].body =
             [j \in 1..Len(blockquote_content) |->
                _format_inline(blockquote_content[j])]

\* headings and code blocks hold escaped text and no inline tag
C14_EscapedOnly ==
  \A k \in 1..Len(html_lines) :
    html_lines[k].tag \in {"h", "pre"} =>
      /\ Len(html_lines[k].body) = 1
      /\ Tokens(html_lines[k].body[1]) \cap (InlineTags \cup Special) = {}

\* C14: the text of every paragraph, list item and blockquote line is the
\* inline-formatted text of its line, and the text of a heading or of a
\* code block is HTML-escaped and holds no inline tag.
C14_InlineWhere == []C14_EscapedOnly /\ [][C14_Formatted]_vars

\* a heading that kept its '*' and escaped its '<', next to a blockquote
\* whose '*e*' became emphasis
C14_Witness ==
  /\ pc = "done"
  /\ Len(html_lines) = 2
  /\ html_lines[1].tag = "h"
  /\ {"*", "&lt;"} \subseteq Tokens(html_lines[1].body[1])
  /\ html_lines[2].tag = "blockquote"
  /\ "<em>" \in Tokens(html_lines[2].body[1])

(***************************************************************************)
(* C15                                                                     *)
(***************************************************************************)
\* six passes, each over the whole output of the pass before it
SixPasses(text) ==
  LET t1 == ReSub(CodePat, text)
      t2 == ReSub(BoldPat, t1)
      t3 == ReSub(ItalicPat, t2)
      t4 == ReSub(DelPat, t3)
      t5 == ReSub(LinkPat, t4)
      t6 == ReSub(ImagePat, t5)
  IN  t6

\* C15: every text that went through _format_inline (the text of a
\* paragraph, of a list item, of a blockquote line) comes out as the six
\* passes code span, bold, italic, strikethrough, link, image applied in
\* that order, each to the whole output of the one before.
C15_SixPasses ==
  [][pc = "loop" =>
       \A k \in 1..Len(Added) :
         /\ Added[k].tag = "p" => Added[k].body = <<SixPasses(CurLine)>>
         /\ Added[k].tag = "ul" =>
              Added[k].body =
                [j \in 1..Len(list_items) |-> SixPasses(list_items[j])]
         /\ Added[k].tag = "blockquote" =>
              Added[k].body =
                [j \in 1..Len(blockquote_content) |->
                   SixPasses(blockquote_content[j])]]_vars

\* the italic pass rewrote the inside of a code span, and the link pass
\* took the brackets of an image marker before the image pass ran
C15_Witness ==
  /\ pc = "done"
  /\ Len(html_lines) = 2
  /\ html_lines[1].body = <<<<"<code>", "<em>", "c", "</em>", "</code>">>>>
  /\ html_lines[2].body = <<<<"!", "<a href=\"", "u", "\">", "a", "</a>">>>>

(***************************************************************************)
(* C16                                                                     *)
(***************************************************************************)
Alts == {<<>>, <<"a">>, <<"q">>}

Urls == {<<"u">>, <<"r">>}

ImageMarker(alt, url) == <<"!", "[">> \o alt \o <<"]", "(">> \o url \o <<")">>

ImageElement(alt, url) ==
  <<"<img src=\"">> \o url \o <<"\" alt=\"">> \o alt \o <<"\"/>">>

\* C16: a paragraph line or a list item that is an image marker
\* '![alt](url)', with alt empty or not, is rendered as the image element
\* of that alt and that url.
C16_ImageRendered ==
  [][pc = "loop" =>
       \A alt \in Alts : \A url \in Urls :
         \A k \in 1..Len(Added) :
           /\ (Added[k].tag = "p" /\ CurLine = ImageMarker(alt, url))
                => Added[k].body = <<ImageElement(alt, url)>>
           /\ (Added[k].tag = "ul" /\ list_items = <<ImageMarker(alt, url)>>)
                => Added[k].body = <<ImageElement(alt, url)>>]_vars

(***************************************************************************)
(* C17                                                                     *)
(***************************************************************************)
\* the trimmed form of the line starts with '# '
IsTitleLine(l) == StartsWith(Strip(l), <<"#", " ">>)

\* the title extraction runs: no title was given
Extracting == pc = "read" /\ title = <<>>

\* C17: the extracted title is the trimmed remainder of the first line, in
\* order, whose trimmed form starts with '# '; '# ' lines after it do not
\* change it, and nothing after the extraction changes the title.
C17_FirstTitleLine ==
  [][/\ Extracting =>
          (LET ls == Split(article)
           IN  \A k \in 1..Len(ls) :
                 (/\ IsTitleLine(ls[k])
                  /\ \A j \in 1..(k - 1) : ~IsTitleLine(ls[j]))
                   => (title' = Strip(Drop(Strip(ls[k]), 2))))
     /\ pc \in {"titled", "loop"} => title' = title]_vars

\* '# h', then text, then one more '# ' line: the title is 'h' to the end
C17_Witness ==
  /\ pc = "done"
  /\ Split(article) = <<<<"#", " ", "h">>, <<"b">>, <<" ", "#", " ", "t", " ">>>>
  /\ title = <<"h">>

(***************************************************************************)
(* C18                                                                     *)
(***************************************************************************)
NoTitleLine == \A k \in 1..Len(Split(article)) : ~IsTitleLine(Split(article)[k])

\* C18 as stated: without a '# ' line the title is "Untitled"
C18_Untitled ==
  [][(Extracting /\ NoTitleLine)
       => title' = <<"U", "n", "t", "i", "t", "l", "e", "d">>]_vars

\* C18: without a '# ' line the title is the five-character literal of
\* line 287
C18_Fallback ==
  [][(Extracting /\ NoTitleLine)
       => title' = <<"U+672A", "U+547D", "U+540D", "U+6587", "U+7AE0">>]_vars

\* three lines, none of them a '# ' line, and the fallback as title
C18_Witness ==
  /\ pc = "titled"
  /\ Split(article) = <<<<"#", "x">>, <<"#", "#", " ", "s">>, <<"b">>>>
  /\ title = <<"U+672A", "U+547D", "U+540D", "U+6587", "U+7AE0">>

(***************************************************************************)
(* C19                                                                     *)
(***************************************************************************)
\* the positions of the level-1 headings in the output
Level1 == {k \in 1..Len(html_lines) :
             html_lines[k].tag = "h" /\ html_lines[k].level = 1}

\* C19: the extracted title is the text of the first level-1 Heading that
\* parse emits for the same text, and it is the fallback exactly when
\* parse emits no level-1 Heading.
C19_TitleIsFirstHeading ==
  (pc = "done" /\ article # <<>>) =>
    LET t == extract_title(article)
    IN  /\ Level1 # {} => Unescape(html_lines[SetMin(Level1)].body[1]) = t
        /\ Level1 = {} <=> t = Unnamed

(***************************************************************************)
(* C20                                                                     *)
(***************************************************************************)
\* C20: every Heading in the output has a level n in 1..6 and the size
\* 28, 24, 20, 18, 16, 14 px for n = 1, 2, 3, 4, 5, 6, and no call of the
\* heading renderer has failed.
C20_SizeTable ==
  /\ pc # "raised"
  /\ \A k \in 1..Len(html_lines) :
       /\ html_lines[k].tag # "KeyError"
       /\ html_lines[k].tag = "h" =>
            /\ html_lines[k].level \in 1..6
            /\ html_lines[k].size =
                 CASE html_lines[k].level = 1 -> 28
                   [] html_lines[k].level = 2 -> 24
                   [] html_lines[k].level = 3 -> 20
                   [] html_lines[k].level = 4 -> 18
                   [] html_lines[k].level = 5 -> 16
                   [] html_lines[k].level = 6 -> 14

\* a level-6 Heading of 14 px, then a line of seven '#' that went through
\* as a Paragraph
C20_Witness ==
  /\ pc = "done"
  /\ Len(html_lines) = 2
  /\ html_lines[1].tag = "h"
  /\ html_lines[1].level = 6
  /\ html_lines[1].size = 14
  /\ HashLevel(lines[2]) = 7
  /\ html_lines[2].tag = "p"

(***************************************************************************)
(* C21                                                                     *)
(***************************************************************************)
ThemeIds == {"elegant", "dark", "blue", "pink", "minimal"}

\* the identifier of the bundle the claim assigns to a request
Selected == IF payload.theme \in ThemeIds THEN payload.theme ELSE "elegant"

\* C21: when format_article succeeds, the page is built from the bundle of
\* the theme identifier if that is one of elegant, dark, blue, pink,
\* minimal, and from the bundle 'elegant' for any other identifier and for
\* an absent one; the theme of the result is the display name of that
\* bundle.
C21_ThemeResolved ==
  (pc = "exit" /\ stdout[1].success) =>
    /\ stdout[1].theme = THEMES[Selected].name
    /\ output_file.bg_color = THEMES[Selected].bg_color
    /\ output_file.text_color = THEMES[Selected].text_color
    /\ output_file.link_color = THEMES[Selected].link_color
    /\ output_file.header_color = THEMES[Selected].header_color
    /\ output_file.border_radius = THEMES[Selected].border_radius

\* a request without a theme and one with an unknown theme, both reported
\* under the display name of 'elegant'
C21_Witness ==
  /\ pc = "exit"
  /\ payload.theme \in {Absent, "other"}
  /\ stdout[1].success
  /\ stdout[1].theme = <<"U+4F18", "U+96C5", "U+7B80", "U+6D01">>
  /\ output_file.border_radius = "8px"

(***************************************************************************)
(* C22                                                                     *)
(***************************************************************************)
\* what main has printed is one result object once main is over and
\* nothing before, and the error of a result is null exactly on success
C22_Results ==
  /\ Len(stdout) = (IF pc = "exit" THEN 1 ELSE 0)
  /\ \A k \in 1..Len(stdout) :
       /\ stdout[k].success \in BOOLEAN
       /\ stdout[k].error = None <=> stdout[k].success

\* the kinds of request as the claim lists them
C22_Kinds ==
  pc = "exit" =>
    /\ payload.kind \in {"empty", "not_json", "not_object"}
         => ~stdout[1].success
    /\ (payload.input = None \/ payload.output = None) => ~stdout[1].success
    /\ payload.input = "missing.md" => ~stdout[1].success
    /\ stdout[1].success =>
         /\ payload.kind = "object"
         /\ payload.input = "in.md"
         /\ payload.output = "out.html"

\* C22: for every request (empty, not JSON, JSON that is not an object,
\* without input or output, naming a missing file, or valid) main ends
\* having printed exactly one result object, whose success flag is a
\* boolean and whose error is null exactly when success is true.
C22_OneResult ==
  /\ []C22_Results
  /\ []C22_Kinds
  /\ <>(pc = "exit")

\* a request that is JSON but no object, answered by one failure
C22_Witness ==
  /\ pc = "exit"
  /\ payload.kind = "not_object"
  /\ Len(stdout) = 1
  /\ ~stdout[1].success
  /\ stdout[1].error = "AttributeError"

(***************************************************************************)
(* C23                                                                     *)
(***************************************************************************)
\* the results of the requested operations that ran and failed
FailedOps ==
  { r \in {clipper.merge_result, clipper.subtitle_result, clipper.music_result} :
      r # Unbound /\ ~r.success }

\* C23: when process returns, a requested operation (merge, subtitle,
\* music) that failed makes the result a failure carrying the text of
\* that operation, so that a success is returned only if none failed.
C23_FailureReported ==
  clipper.pc = "returned" =>
    \A r \in FailedOps :
      /\ ~clipper.result.success
      /\ clipper.result.error = r.error

(***************************************************************************)
(* C24                                                                     *)
(***************************************************************************)
\* the locals of a call on a parser that has parsed nothing before
Fresh ==
  [html_lines |-> <<>>, in_code_block |-> FALSE, code_content |-> <<>>,
   in_list |-> FALSE, list_items |-> <<>>, in_blockquote |-> FALSE,
   blockquote_content |-> <<>>, raised |-> FALSE]

RECURSIVE Run(_, _)
\* the loop over the lines ls from the locals st, then the final flushes
Run(st, ls) ==
  IF ls = <<>> THEN Finish(st)
  ELSE Run(Step(st, RStrip(Head(ls))), Tail(ls))

\* C24: what a call returns is what a call on a new parser returns for
\* the same text, whatever the calls made before on the same parser; so
\* two calls with the same text return the same output.
C24_Deterministic ==
  pc = "done" => html_lines = Run(Fresh, lines).html_lines

\* between two calls, after a call that returned with a list open and
\* two blocks in its output
C24_Witness ==
  /\ pc = "idle"
  /\ Len(html_lines) = 2
  /\ in_list
  /\ list_items # <<>>

(***************************************************************************)
(* C25                                                                     *)
(***************************************************************************)
\* C25: a line that starts with three backticks, processed while no fence
\* is open, opens the fence on an empty code buffer and changes nothing
\* else: no block is emitted and the list and blockquote flags and buffers
\* stay as they are.
C25_FenceOpens ==
  [][LineStep /\ ~in_code_block /\ StartsWith(CurLine, Fence) =>
       /\ in_code_block'
       /\ code_content' = <<>>
       /\ UNCHANGED <<html_lines, in_list, list_items,
                      in_blockquote, blockquote_content>>]_vars

\* a second fence opened after a code block of one line was emitted: the
\* buffer that held the line is empty again and the output is unchanged
C25_Witness ==
  /\ pc = "loop"
  /\ i = 4
  /\ in_code_block
  /\ code_content = <<>>
  /\ Len(html_lines) = 1
  /\ html_lines[1].tag = "pre"
  /\ html_lines[1].body # <<<<>>>>

(***************************************************************************)
(* C26                                                                     *)
(***************************************************************************)
\* the first rule, in the order of the claim, that the line l matches
RuleOf(l) ==
  IF StartsWith(l, <<">">>) THEN "blockquote"
  ELSE IF StartsWith(l, <<"#">>) /\ HashLevel(l) \in 1..6 THEN "heading"
  ELSE IF StartsWith(l, <<"-", "-", "-">>) THEN "rule"
  ELSE IF StartsWith(l, <<"-", " ">>) \/ StartsWith(l, <<"*", " ">>)
  THEN "item"
  ELSE IF Strip(l) # <<>> THEN "paragraph"
  ELSE "blank"

\* the tag of the block that a rule emits at once
TagOf(rule) ==
  CASE rule = "heading" -> "h"
    [] rule = "rule" -> "hr"
    [] rule = "paragraph" -> "p"
    [] OTHER -> "none"

\* C26: outside a fence a line has the effect of the first rule it
\* matches in the order blockquote, heading, horizontal rule, list item,
\* paragraph, and of no other rule: a '>' line, whatever follows the '>',
\* only adds its text to the blockquote buffer; a heading, a '---' line or
\* a paragraph line appends its own block at once, after the blocks the
\* step flushes, and enters no buffer; a list item only enters the list
\* buffer.
C26_FirstRule ==
  [][(LineStep /\ ~in_code_block /\ ~StartsWith(CurLine, Fence)) =>
       LET rule == RuleOf(CurLine)
       IN  /\ CountTag(Added, {"h", "hr", "p"}) =
                (IF rule \in {"heading", "rule", "paragraph"} THEN 1 ELSE 0)
           /\ rule \in {"heading", "rule", "paragraph"} =>
                LastOf(Added).tag = TagOf(rule)
           /\ rule = "rule" => (LastOf(Added) = Hr /\ UNCHANGED list_items)
           /\ IF rule = "blockquote"
              THEN /\ in_blockquote'
                   /\ blockquote_content' # <<>>
                   /\ LastOf(blockquote_content') = Strip(Drop(CurLine, 1))
                   /\ Len(blockquote_content') =
                        (IF in_blockquote THEN Len(blockquote_content) + 1
                         ELSE 1)
                   /\ UNCHANGED <<in_list, list_items>>
              ELSE \/ UNCHANGED blockquote_content
                   \/ blockquote_content' = <<>>
           /\ IF rule = "item"
              THEN /\ in_list'
                   /\ list_items' = Append(list_items, Strip(Drop(CurLine, 2)))
                   /\ UNCHANGED <<in_blockquote, blockquote_content>>
                      \/ (~in_blockquote' /\ blockquote_content' = <<>>)
              ELSE \/ UNCHANGED list_items
                   \/ list_items' = <<>>]_vars

\* '>---' went into a blockquote and '--- x' closed it and became a rule
C26_Witness ==
  /\ pc = "done"
  /\ Len(html_lines) = 2
  /\ html_lines[1].tag = "blockquote"
  /\ html_lines[1].body = <<<<"-", "-", "-">>>>
  /\ html_lines[2] = Hr
  /\ lines[2] = <<"-", "-", "-", " ", "x">>

(***************************************************************************)
(* C27                                                                     *)
(***************************************************************************)
\* the line numbers at which the open code, blockquote and list buffers
\* started, after the step from the locals st to the locals nx at line k
Opened(o, st, nx, k) ==
  [code |-> IF ~st.in_code_block /\ nx.in_code_block THEN k ELSE o.code,
   quote |-> IF ~st.in_blockquote /\ nx.in_blockquote THEN k ELSE o.quote,
   list |-> IF st.list_items = <<>> /\ nx.list_items # <<>> THEN k ELSE o.list]

\* the first line that contributed to each block the step appended: the
\* start of its buffer for a flushed block, the line k for the others
FirstLines(o, st, nx, k) ==
  [j \in 1..(Len(nx.html_lines) - Len(st.html_lines)) |->
     LET b == nx.html_lines[Len(st.html_lines) + j]
     IN  CASE b.tag = "pre" -> o.code
           [] b.tag = "blockquote" -> o.quote
           [] b.tag = "ul" -> o.list
           [] OTHER -> k]

RECURSIVE Origins(_, _, _, _)
\* the first contributing line of every block of the output of the lines
\* ls, from line k on
Origins(st, o, ls, k) ==
  IF k > Len(ls) THEN FirstLines(o, st, Finish(st), k)
  ELSE LET nx == Step(st, RStrip(ls[k]))
       IN  FirstLines(o, st, nx, k)
             \o Origins(nx, Opened(o, st, nx, k), ls, k + 1)

\* C27: the blocks of the output are in the order of their first
\* contributing input lines.
C27_SourceOrder ==
  pc = "done" =>
    LET os == Origins(Fresh, [code |-> 0, quote |-> 0, list |-> 0], lines, 1)
    IN  /\ Len(os) = Len(html_lines)
        /\ \A a, b \in 1..Len(os) : a < b => os[a] <= os[b]

(***************************************************************************)
(* C28                                                                     *)
(***************************************************************************)
\* at a line boundary each flag tells whether its buffer holds something
C28_FlagsMatch ==
  pc = "loop" =>
    /\ in_blockquote <=> blockquote_content # <<>>
    /\ in_list <=> list_items # <<>>

\* a '>' line that starts a blockquote finds nothing to flush
C28_NoLeftOver ==
  (LineStep /\ ~in_code_block /\ StartsWith(CurLine, <<">">>) /\ ~in_blockquote)
    => (blockquote_content = <<>> /\ UNCHANGED html_lines)

\* C28: at every line boundary of parse the blockquote flag is set exactly
\* when the blockquote buffer is not empty and the list flag exactly when
\* the list buffer is not empty; so the flush of a left-over blockquote
\* buffer at the start of a new blockquote never runs.
C28_FlagsAndBuffers == []C28_FlagsMatch /\ [][C28_NoLeftOver]_vars

\* a second blockquote started after the first one was closed and emitted
C28_Witness ==
  /\ pc = "loop"
  /\ i = 3
  /\ in_blockquote
  /\ Len(blockquote_content) = 1
  /\ Len(html_lines) = 2
  /\ html_lines[1].tag = "blockquote"
  /\ StartsWith(lines[3], <<">">>)

(***************************************************************************)
(* C29                                                                     *)
(***************************************************************************)
RECURSIVE BodiesOf(_, _)
\* the texts of the blocks of one tag, block after block
BodiesOf(blocks, tag) ==
  IF blocks = <<>> THEN <<>>
  ELSE (IF Head(blocks).tag = tag THEN Head(blocks).body ELSE <<>>)
         \o BodiesOf(Tail(blocks), tag)

RECURSIVE Ledger(_, _, _)
\* one reading of the lines ls that only keeps count: the items of the
\* list-item lines and the texts of the '>' lines outside a fence, and
\* the text of every fenced region, closed or left open with lines in it
Ledger(ls, open, acc) ==
  IF ls = <<>>
  THEN IF open /\ acc.region # <<>>
       THEN [acc EXCEPT !.codes = Append(@, escape(Join(acc.region)))]
       ELSE acc
  ELSE
    LET l == RStrip(Head(ls))
    IN  IF StartsWith(l, Fence)
        THEN IF open
             THEN Ledger(Tail(ls), FALSE,
                         [acc EXCEPT
                            !.codes = Append(@, escape(Join(acc.region))),
                            !.region = <<>>])
             ELSE Ledger(Tail(ls), TRUE, [acc EXCEPT !.region = <<>>])
        ELSE IF open
        THEN Ledger(Tail(ls), TRUE, [acc EXCEPT !.region = Append(@, l)])
        ELSE IF StartsWith(l, <<">">>)
        THEN Ledger(Tail(ls), FALSE,
                    [acc EXCEPT
                       !.quotes = Append(@, _format_inline(Strip(Drop(l, 1))))])
        ELSE IF StartsWith(l, <<"-", " ">>) \/ StartsWith(l, <<"*", " ">>)
        THEN Ledger(Tail(ls), FALSE,
                    [acc EXCEPT
                       !.items = Append(@, _format_inline(Strip(Drop(l, 2))))])
        ELSE Ledger(Tail(ls), FALSE, acc)

Counted ==
  Ledger(lines, FALSE,
         [items |-> <<>>, quotes |-> <<>>, codes |-> <<>>, region |-> <<>>])

\* C29: in the output of parse the items of all List blocks are, one for
\* one and in order, the list-item lines outside a fence, the lines of all
\* Blockquote blocks are the '>' lines outside a fence, and the CodeBlocks
\* are the fenced regions, each holding the lines of its region once.
C29_NothingLostOrDuplicated ==
  pc = "done" =>
    /\ BodiesOf(html_lines, "ul") = Counted.items
    /\ BodiesOf(html_lines, "blockquote") = Counted.quotes
    /\ BodiesOf(html_lines, "pre") = Counted.codes

\* an item, then a fence around a '>' line: the '>' line is in the
\* CodeBlock and the item, kept across the fence, is in the List
C29_Witness ==
  /\ pc = "done"
  /\ Len(lines) = 4
  /\ Len(html_lines) = 2
  /\ html_lines[1].tag = "pre"
  /\ html_lines[1].body = <<<<"&gt;", " ", "q">>>>
  /\ html_lines[2].tag = "ul"
  /\ html_lines[2].body = <<<<"i">>>>

(***************************************************************************)
(* C30                                                                     *)
(***************************************************************************)
\* C30: a call of process on an existing video with extract_audio false,
\* once it is over and no file operation has failed, has transcribed the
\* video file itself, has written the subtitle file and has returned a
\* success whose audio_path is null; it has not raised.
C30_NoExtraction ==
  (/\ asr.pc \in {"returned", "raised"}
   /\ asr.video = "v.mp4"
   /\ ~asr.extract_audio
   /\ asr.raised # "OSError")
    => /\ asr.pc = "returned"
       /\ asr.raised = None
       /\ asr.transcribed = asr.video
       /\ asr.result.success
       /\ asr.result.audio_path = None
       /\ asr.result.subtitle_path # None

====
